---- MODULE Spec2Model ----
(***************************************************************************)
(* State-machine model of Projects/Catch/scripts/catch.js: the Tween       *)
(* wrapper (a host time driver, a sampler, a completion subscription) and  *)
(* the CatchFall controller that the interval timer and the tween          *)
(* completion callbacks drive.                                             *)
(*                                                                         *)
(* Lengths are in hundredths of a scene unit (RANGE 0.06 is 6), scale 1.0  *)
(* is 100, and time is counted in steps of the host clock.                 *)
(***************************************************************************)
EXTENDS Integers, Sequences, FiniteSets, TLC

VARIABLES
    state,      \* CatchFall.state
    timer,      \* CatchFall.intervalTimer is set
    promise,    \* pool.findByPath('*'): "none", "pending" (items is null), "resolved"
    items,      \* CatchFall.items, the pool objects once the promise has resolved
    dists,      \* CatchFall.dists: dists[i] is the distance binding of object dists[i]
    tracker,    \* the MouthTracker proxy: hidden flag and position binding
    tweens,     \* the Tween instances that are still reachable, by identity
    threw       \* the handler that ran last ended by an uncaught exception

vars == <<state, timer, promise, items, dists, tracker, tweens, threw>>

----------------------------------------------------------------------------
\* Program constants.

\* STATES
Invalid == 0
Init_ == 1
WaitPool == 2
Tick == 3
Catch == 4

\* range at which falling items are eaten (0.06)
RANGE == 6
\* y value where falling items are reset to the top (-0.7)
BOTTOM == -70
\* openness threshold for mouth to be eating (0.12)
MOUTH_OPEN == 12
\* a scale component of 1.0
ONE == 100
\* duration of the shrink Tween (0.25 s), in clock steps
ShrinkSteps == 1

----------------------------------------------------------------------------
\* Bounds of the model.

\* the largest pool the host returns
MaxItems == 2
\* the most Tween instances reachable at once
MaxTweens == 3
\* duration of the fall Tween (SPEED), in clock steps
FallSteps == 2

TweenIds == 1..MaxTweens

\* Animation.samplers: the ease names the host knows (the model carries two)
Catalog == {"linear", "easeInQuad"}
\* names that are no sampler of the host and still resolve to a function on
\* Animation.samplers: the members every object inherits (toString, valueOf,
\* hasOwnProperty, ...)
Inherited == {"toString"}
\* the ease names a caller passes
EaseNames == Catalog \cup Inherited \cup {"bogus"}
\* what the distance bindings and the mouth openness can be sampled at
DistVals == {3, 6, 50}
OpennessVals == {12, 30}
\* Random.random() * 0.2 - 0.1: the offset a fall is given (written, never read)
XVals == {-10}

----------------------------------------------------------------------------
\* Tween (catch.js 89-131) over the host's time driver and samplers.

\* a slot of the heap that holds no Tween
NoTween == [kind |-> "free"]

\* completion callbacks: none, the two closures of CatchFall, a caller's own
NoCallback == [fn |-> "null", item |-> 0]
CbResetAtBottom == [fn |-> "resetAtBottom", item |-> 0]
CbResetFallingItem(i) == [fn |-> "resetFallingItem", item |-> i]
CbProbe == [fn |-> "probe", item |-> 0]

\* Animation.samplers[ease](startVal, endVal): a sampler for a name of the
\* catalog; for a name that resolves to nothing the property is undefined and
\* the call throws; for an inherited member the call returns, and what it
\* returns is no sampler (samplers.toString(0, 1) is a string)
SamplerLookup(ease) ==
    IF ease \in Catalog THEN ease
    ELSE IF ease \in Inherited THEN "notSampler"
    ELSE "throw"

\* try { samplers[ease](...) } catch (e) { samplers.linear(...) }
SamplerOf(ease) == IF SamplerLookup(ease) = "throw" THEN "linear" ELSE SamplerLookup(ease)

\* new Tween(startVal, endVal, duration, loopCount, mirror, ease, completeCallback)
\* loopCount -1 is Infinity.  clock/elapsed/loops/curve are the host's driver
\* and animation signal, which outlive the references Kill() clears.
Tween(startVal, endVal, duration, loopCount, mirror, ease, completeCallback) ==
    [ kind      |-> "tween",
      startVal  |-> startVal,
      endVal    |-> endVal,
      duration  |-> duration,
      loopCount |-> loopCount,
      mirror    |-> mirror,
      ease      |-> ease,
      cb        |-> completeCallback,
      driver    |-> "set",
      sampler   |-> SamplerOf(ease),
      sub       |-> IF completeCallback # NoCallback THEN "subscribed" ELSE "undefined",
      animation |-> IF SamplerOf(ease) \in Catalog THEN "set" ELSE "invalid",
      clock     |-> "running",
      elapsed   |-> 0,
      loops     |-> 0,
      curve     |-> SamplerOf(ease),
      fired     |-> 0 ]

\* Kill() dereferences this.driver first: on a Tween that was killed before,
\* this.driver is null and the call throws.
KillThrows(tw) == tw.driver = "null"

\* Kill() that leaves the completion listener subscribed
Kill_KeepsListener(tw) ==
    [tw EXCEPT !.clock = IF tw.clock = "running" THEN "stopped" ELSE tw.clock,
               !.animation = "null",
               !.driver = "null",
               !.sampler = "null"]

\* Kill(): stop the driver, unsubscribe, clear the three references.
Kill(tw) ==
    [tw EXCEPT !.clock = IF tw.clock = "running" THEN "stopped" ELSE tw.clock,
               !.sub = IF tw.sub = "subscribed" THEN "unsubscribed" ELSE tw.sub,
               !.animation = "null",
               !.driver = "null",
               !.sampler = "null"]

\* The host clock moves a running driver one step; at the end of the last loop
\* the driver is completed.  An endless driver keeps only the parity of loops.
DriverStep(tw) ==
    IF tw.kind = "free" \/ tw.clock # "running" THEN tw
    ELSE IF tw.elapsed + 1 < tw.duration THEN [tw EXCEPT !.elapsed = tw.elapsed + 1]
    ELSE IF tw.loopCount = -1
         THEN [tw EXCEPT !.elapsed = 0, !.loops = (tw.loops + 1) % 2]
    ELSE IF tw.loops + 1 >= tw.loopCount
         THEN [tw EXCEPT !.elapsed = tw.duration, !.loops = tw.loops + 1, !.clock = "done"]
    ELSE [tw EXCEPT !.elapsed = 0, !.loops = tw.loops + 1]

\* the sampler's curve at progress p of d, between a and b; what is no sampler
\* interpolates nothing
Sample(curve, a, b, p, d) ==
    IF curve = "easeInQuad" THEN a + ((b - a) * p * p) \div (d * d)
    ELSE IF curve = "linear" THEN a + ((b - a) * p) \div d
    ELSE a

\* the current value of the animation signal (what pinLastValue() returns)
Value(tw) ==
    LET lap == IF tw.clock = "done" THEN tw.loops - 1 ELSE tw.loops
        p   == IF tw.mirror /\ lap % 2 = 1 THEN tw.duration - tw.elapsed ELSE tw.elapsed
    IN  Sample(tw.curve, tw.startVal, tw.endVal, p, tw.duration)

\* the completion notification is due: the driver has completed, the listener
\* is still subscribed and has not been called
Due(tw) == tw.kind = "tween" /\ tw.clock = "done" /\ tw.sub = "subscribed" /\ tw.fired = 0

----------------------------------------------------------------------------
\* Scene objects of the pool.

\* an object as the host returns it; falling and tween are undefined (falsy)
SceneObject(h) ==
    [ hidden  |-> h,
      falling |-> FALSE,
      tween   |-> 0,
      x       |-> 0,
      y       |-> 0,
      ybind   |-> 0,
      scale   |-> ONE,
      sbind   |-> 0 ]

\* item.transform.y.pinLastValue(): a constant, or the bound animation's value
PosY(its, tws, i) == IF its[i].ybind = 0 THEN its[i].y ELSE Value(tws[its[i].ybind])
\* one component of item.transform.scale (the three are always the same signal)
ScaleOf(its, tws, i) == IF its[i].sbind = 0 THEN its[i].scale ELSE Value(tws[its[i].sbind])

Free(tws) == {t \in TweenIds : tws[t].kind = "free"}
FreeSlot(tws) == CHOOSE t \in Free(tws) : \A u \in Free(tws) : t <= u

Referenced(its, t) ==
    \E i \in 1..Len(its) : its[i].tween = t \/ its[i].ybind = t \/ its[i].sbind = t

\* Garbage collection: a Tween that no object and no binding refers to, and
\* whose listener can no longer be called, is gone.
Collect(its, tws) ==
    [t \in TweenIds |->
        IF tws[t].kind = "tween" /\ ~Referenced(its, t)
           /\ (tws[t].sub # "subscribed" \/ tws[t].fired > 0)
        THEN NoTween ELSE tws[t]]

\* Object identity carries no order: the heap is kept in one canonical
\* numbering, by the object a Tween belongs to, then by what it is and where
\* its driver stands.  Tweens with equal keys are interchangeable.
OwnerOf(its, tws, t) ==
    IF tws[t].cb.fn = "resetFallingItem" THEN tws[t].cb.item
    ELSE IF \E i \in 1..Len(its) : its[i].tween = t \/ its[i].ybind = t
         THEN CHOOSE i \in 1..Len(its) : its[i].tween = t \/ its[i].ybind = t
         ELSE 0

SortKey(its, tws, t) ==
    LET tw == tws[t]
        o  == OwnerOf(its, tws, t)
        k  == IF tw.cb.fn = "resetFallingItem" THEN 1 ELSE 0
        c  == IF tw.clock = "running" THEN 0 ELSE IF tw.clock = "done" THEN 1 ELSE 2
        u  == IF o # 0 /\ its[o].tween = t THEN 1 ELSE 0
        b  == IF o # 0 /\ its[o].sbind = t THEN 1 ELSE 0
    IN  ((((o * 2 + k) * 3 + c) * (tw.duration + 1) + tw.elapsed) * 2 + u) * 2 + b

\* the place of each Tween in the canonical numbering, from the keys
RankBy(used, key) ==
    [t \in used |->
        1 + Cardinality({u \in used : key[u] < key[t] \/ (key[u] = key[t] /\ u < t)})]

RenumberBy(its, tws, used, rank) ==
    [ its |-> [i \in 1..Len(its) |->
                 [its[i] EXCEPT
                    !.tween = IF its[i].tween = 0 THEN 0 ELSE rank[its[i].tween],
                    !.ybind = IF its[i].ybind = 0 THEN 0 ELSE rank[its[i].ybind],
                    !.sbind = IF its[i].sbind = 0 THEN 0 ELSE rank[its[i].sbind]]],
      tws |-> [n \in TweenIds |->
                 IF \E t \in used : rank[t] = n
                 THEN tws[CHOOSE t \in used : rank[t] = n]
                 ELSE NoTween] ]

Renumber(its, tws) ==
    CHOOSE H \in { RenumberBy(its, tws, TweenIds \ Free(tws), rank) :
                     rank \in { RankBy(TweenIds \ Free(tws), key) :
                       key \in { [t \in TweenIds \ Free(tws) |-> SortKey(its, tws, t)] } } } :
        TRUE

\* the heap after a handler: collected and renumbered
Heap(its, tws) == CHOOSE H \in { Renumber(its, c) : c \in {Collect(its, tws)} } : TRUE

----------------------------------------------------------------------------
\* CatchFall (catch.js 147-319).  A handler works on S = [its, tws, err]: the
\* objects, the Tween heap, and whether an exception has ended the handler.

St(its, tws, err) == [its |-> its, tws |-> tws, err |-> err]

\* resetFallingItem(item) that drops the Tween it holds without Kill()
resetFallingItem_NoKill(S, i) ==
    St([S.its EXCEPT ![i] = [S.its[i] EXCEPT !.hidden = TRUE, !.y = 0, !.ybind = 0,
                                             !.scale = ONE, !.sbind = 0,
                                             !.tween = 0, !.falling = FALSE]],
       S.tws, S.err)

\* resetFallingItem(item)
resetFallingItem(S, i) ==
    LET item == S.its[i]
        shown == [item EXCEPT !.hidden = TRUE, !.y = 0, !.ybind = 0,
                              !.scale = ONE, !.sbind = 0]
    IN  IF item.tween = 0
        THEN St([S.its EXCEPT ![i] = [shown EXCEPT !.falling = FALSE]], S.tws, S.err)
        ELSE IF KillThrows(S.tws[item.tween])
        THEN St([S.its EXCEPT ![i] = shown], S.tws, TRUE)
        ELSE St([S.its EXCEPT ![i] = [shown EXCEPT !.tween = 0, !.falling = FALSE]],
                [S.tws EXCEPT ![item.tween] = Kill(S.tws[item.tween])], S.err)

\* findLowestItem(): the loop from index i on, with the lowest object found so
\* far (0 is null) and its y
RECURSIVE findLowestFrom(_, _, _, _, _)
findLowestFrom(its, tws, i, lowest, min) ==
    IF i > Len(its) THEN lowest
    ELSE IF PosY(its, tws, i) < min
         THEN findLowestFrom(its, tws, i + 1, i, PosY(its, tws, i))
         ELSE findLowestFrom(its, tws, i + 1, lowest, min)

findLowestItem(its, tws) == findLowestFrom(its, tws, 1, 0, 0)

\* resetAtBottom()
resetAtBottom(S) ==
    LET item == findLowestItem(S.its, S.tws)
    IN  IF item # 0 THEN resetFallingItem(S, item) ELSE S

\* catchFallingItem(): the loop from index i on; d[k] is what binding k
\* samples at (pinLastValue), 0 is null
RECURSIVE catchFallingFrom(_, _, _, _)
catchFallingFrom(its, ds, d, i) ==
    IF i > Len(its) THEN 0
    ELSE IF its[i].falling /\ d[ds[i]] < RANGE THEN i
    ELSE catchFallingFrom(its, ds, d, i + 1)

\* catchFallingItem() that returns the last object in range, not the first
catchFallingItem_Last(its, ds, d) ==
    LET hit == {i \in 1..Len(its) : its[i].falling /\ d[ds[i]] < RANGE}
    IN  IF hit = {} THEN 0 ELSE CHOOSE i \in hit : \A j \in hit : j <= i

\* catchFallingItem() that also takes an object exactly at RANGE
catchFallingItem_AtRange(its, ds, d) ==
    LET hit == {i \in 1..Len(its) : its[i].falling /\ d[ds[i]] <= RANGE}
    IN  IF hit = {} THEN 0 ELSE CHOOSE i \in hit : \A j \in hit : i <= j

catchFallingItem(its, ds, d) == catchFallingFrom(its, ds, d, 1)

\* this.eating = mouth.openness.gt(MOUTH_OPEN), sampled
Eating(openness) == openness > MOUTH_OPEN

\* eatFallingItem(item) that leaves the falling flag set
eatFallingItem_KeepsFalling(S, i, openness) ==
    IF ~Eating(openness) THEN S
    ELSE
    LET item == S.its[i]
        t    == item.tween
        tws1 == IF t = 0 THEN S.tws ELSE [S.tws EXCEPT ![t] = Kill(S.tws[t])]
        n    == FreeSlot(tws1)
        tw   == Tween(ONE, 0, ShrinkSteps, 1, FALSE, "easeInQuad", CbResetFallingItem(i))
    IN  St([S.its EXCEPT ![i] = [item EXCEPT !.tween = n, !.sbind = n]],
           [tws1 EXCEPT ![n] = tw], S.err)

\* eatFallingItem(item) without the test of this.eating
eatFallingItem_Unconditional(S, i, openness) ==
    LET item == S.its[i]
        t    == item.tween
        tws1 == IF t = 0 THEN S.tws ELSE [S.tws EXCEPT ![t] = Kill(S.tws[t])]
        n    == FreeSlot(tws1)
        tw   == Tween(ONE, 0, ShrinkSteps, 1, FALSE, "easeInQuad", CbResetFallingItem(i))
    IN  IF Free(tws1) = {} THEN St([S.its EXCEPT ![i] = [item EXCEPT !.falling = FALSE]], tws1, S.err)
        ELSE St([S.its EXCEPT ![i] = [item EXCEPT !.falling = FALSE, !.tween = n, !.sbind = n]],
                [tws1 EXCEPT ![n] = tw], S.err)

\* eatFallingItem(item)
eatFallingItem(S, i, openness) ==
    IF ~Eating(openness) THEN S
    ELSE
    LET item == S.its[i]
        t    == item.tween
    IN  IF t # 0 /\ KillThrows(S.tws[t])
        THEN St([S.its EXCEPT ![i] = [item EXCEPT !.falling = FALSE]], S.tws, TRUE)
        ELSE
        LET tws1 == IF t = 0 THEN S.tws ELSE [S.tws EXCEPT ![t] = Kill(S.tws[t])]
            n    == FreeSlot(tws1)
            tw   == Tween(ONE, 0, ShrinkSteps, 1, FALSE, "easeInQuad", CbResetFallingItem(i))
        IN  St([S.its EXCEPT ![i] = [item EXCEPT !.falling = FALSE, !.tween = n, !.sbind = n]],
               [tws1 EXCEPT ![n] = tw], S.err)

\* the start of a fall without the test of item.falling
startFall_Always(S, r, x) ==
    LET n  == FreeSlot(S.tws)
        tw == Tween(0, BOTTOM, FallSteps, 1, FALSE, "easeInQuad", CbResetAtBottom)
    IN  IF Free(S.tws) = {} THEN S
        ELSE St([S.its EXCEPT ![r] = [S.its[r] EXCEPT !.falling = TRUE, !.hidden = FALSE,
                                                     !.tween = n, !.x = x, !.ybind = n]],
                [S.tws EXCEPT ![n] = tw], S.err)

\* the start of a fall that does not unhide the object
startFall_StaysHidden(S, r, x) ==
    LET item == S.its[r]
        n    == FreeSlot(S.tws)
        tw   == Tween(0, BOTTOM, FallSteps, 1, FALSE, "easeInQuad", CbResetAtBottom)
    IN  IF item.falling THEN S
        ELSE St([S.its EXCEPT ![r] = [item EXCEPT !.falling = TRUE,
                                                  !.tween = n, !.x = x, !.ybind = n]],
                [S.tws EXCEPT ![n] = tw], S.err)

\* STATES.Tick, the start of a fall: r is Math.floor(Random.random() * length)
\* plus one, x is Random.random() * 0.2 - 0.1
startFall(S, r, x) ==
    LET item == S.its[r]
        n    == FreeSlot(S.tws)
        tw   == Tween(0, BOTTOM, FallSteps, 1, FALSE, "easeInQuad", CbResetAtBottom)
    IN  IF item.falling THEN S
        ELSE St([S.its EXCEPT ![r] = [item EXCEPT !.falling = TRUE, !.hidden = FALSE,
                                                  !.tween = n, !.x = x, !.ybind = n]],
                [S.tws EXCEPT ![n] = tw], S.err)

\* STATES.Tick, the catch step
catchStep(S, ds, d, openness) ==
    LET caughtItem == catchFallingItem(S.its, ds, d)
    IN  IF caughtItem # 0 THEN eatFallingItem(S, caughtItem, openness) ELSE S

\* the heap once the Tweens that have become unreachable are gone: binding y
\* to the new fall Tween lets go of the killed fall Tween an eaten object had
\* kept bound
collected(S) == St(S.its, Collect(S.its, S.tws), S.err)

\* STATES.Tick, the whole branch
tickBranch(S, ds, r, x, d, openness) ==
    catchStep(collected(startFall(S, r, x)), ds, d, openness)

\* the Tick branch never has more than MaxTweens Tweens reachable for these
\* inputs: there is room for the fall Tween when it starts one and, after
\* that, for the shrink Tween when it eats
tickFits(S, ds, r, x, d, openness) ==
    /\ ~S.its[r].falling => Free(S.tws) # {}
    /\ \E S1 \in {collected(startFall(S, r, x))} :
          catchFallingItem(S1.its, ds, d) # 0 /\ Eating(openness) => Free(S1.tws) # {}

----------------------------------------------------------------------------
\* The controller's actions.

Init ==
    /\ state = Invalid
    /\ timer = FALSE
    /\ promise = "none"
    /\ items = <<>>
    /\ dists = <<>>
    /\ tracker = [hidden |-> FALSE, bound |-> FALSE]
    /\ tweens = [t \in TweenIds |-> NoTween]
    /\ threw = FALSE

\* Start()
Start ==
    /\ state = Invalid
    /\ timer = FALSE
    /\ tracker' = [hidden |-> TRUE, bound |-> TRUE]
    /\ promise' = "pending"
    /\ items' = <<>>
    /\ state' = Init_
    /\ timer' = TRUE
    /\ threw' = FALSE
    /\ UNCHANGED <<dists, tweens>>

\* the promise of findByPath('*') resolves: (x) => { this.items = x; }
PoolResolved ==
    /\ promise = "pending"
    /\ \E n \in 0..MaxItems : \E h \in [1..n -> BOOLEAN] :
          items' = [i \in 1..n |-> SceneObject(h[i])]
    /\ promise' = "resolved"
    /\ threw' = FALSE
    /\ UNCHANGED <<state, timer, dists, tracker, tweens>>

\* case STATES.Init that goes to Tick without the wait for the pool
StateMachineInit_SkipsWait ==
    /\ timer
    /\ state = Init_
    /\ state' = Tick
    /\ threw' = FALSE
    /\ UNCHANGED <<timer, promise, items, dists, tracker, tweens>>

\* StateMachine(), case STATES.Init
StateMachineInit ==
    /\ timer
    /\ state = Init_
    /\ state' = WaitPool
    /\ threw' = FALSE
    /\ UNCHANGED <<timer, promise, items, dists, tracker, tweens>>

\* case STATES.WaitPool without the test of this.items != null
StateMachineWaitPool_NoGate ==
    /\ timer
    /\ state = WaitPool
    /\ items' = [i \in 1..Len(items) |-> [items[i] EXCEPT !.hidden = TRUE]]
    /\ dists' = [i \in 1..Len(items) |-> i]
    /\ state' = Tick
    /\ threw' = FALSE
    /\ UNCHANGED <<timer, promise, tracker, tweens>>

\* StateMachine(), case STATES.WaitPool
StateMachineWaitPool ==
    /\ timer
    /\ state = WaitPool
    /\ IF promise # "pending"
       THEN /\ items' = [i \in 1..Len(items) |-> [items[i] EXCEPT !.hidden = TRUE]]
            /\ dists' = [i \in 1..Len(items) |-> i]
            /\ state' = Tick
       ELSE UNCHANGED <<items, dists, state>>
    /\ threw' = FALSE
    /\ UNCHANGED <<timer, promise, tracker, tweens>>

\* StateMachine(), case STATES.Tick, on an empty pool: items[0] is undefined and
\* reading item.falling throws
StateMachineTickEmpty ==
    /\ timer
    /\ state = Tick
    /\ Len(items) = 0
    /\ threw' = TRUE
    /\ UNCHANGED <<state, timer, promise, items, dists, tracker, tweens>>

\* StateMachine(), case STATES.Tick, with the random index r, the random offset
\* x, and what the mouth openness and the distance bindings are sampled at
TickWith(r, x, openness, d) ==
    /\ timer
    /\ state = Tick
    /\ r \in 1..Len(items)
    /\ tickFits(St(items, tweens, FALSE), dists, r, x, d, openness)
    /\ \E S1 \in {tickBranch(St(items, tweens, FALSE), dists, r, x, d, openness)} :
       \E H \in {Heap(S1.its, S1.tws)} :
           /\ items' = H.its
           /\ tweens' = H.tws
           /\ threw' = S1.err
    /\ UNCHANGED <<state, timer, promise, dists, tracker>>

\* What one tick in state Tick can sample.  The code draws the offset only when
\* it starts a fall, samples dists[i] only for an object that is falling when
\* the catch step scans, and samples the mouth only when the scan has caught
\* an object; what it does not read is held at one value.
TickInputs ==
    {in \in [r : 1..Len(items), x : XVals, openness : OpennessVals,
             d : [1..Len(items) -> DistVals]] :
        /\ items[in.r].falling => \A v \in XVals : in.x <= v
        /\ \A i \in 1..Len(items) :
              ~(items[i].falling \/ i = in.r) => \A v \in DistVals : in.d[i] >= v
        /\ (\A i \in 1..Len(items) : in.d[i] >= RANGE) =>
              \A v \in OpennessVals : in.openness <= v}

StateMachineTick ==
    \E in \in TickInputs : TickWith(in.r, in.x, in.openness, in.d)

\* the host clock moves every running driver one step
Advance ==
    /\ \E t \in TweenIds : tweens[t].kind = "tween" /\ tweens[t].clock = "running"
    /\ \E H \in {Heap(items, [t \in TweenIds |-> DriverStep(tweens[t])])} :
           /\ items' = H.its
           /\ tweens' = H.tws
    /\ threw' = FALSE
    /\ UNCHANGED <<state, timer, promise, dists, tracker>>

\* the host delivers the completion of a fall Tween: () => this.resetAtBottom()
FallCompleted(t) ==
    /\ Due(tweens[t])
    /\ tweens[t].cb = CbResetAtBottom
    /\ LET S0 == St(items, [tweens EXCEPT ![t].fired = 1], FALSE)
           S1 == resetAtBottom(S0)
       IN  /\ items' = S1.its
           /\ tweens' = Collect(S1.its, S1.tws)
           /\ threw' = S1.err
    /\ UNCHANGED <<state, timer, promise, dists, tracker>>

\* the host delivers the completion of a shrink Tween:
\* () => this.resetFallingItem(item)
ShrinkCompleted(t) ==
    /\ Due(tweens[t])
    /\ tweens[t].cb.fn = "resetFallingItem"
    /\ LET S0 == St(items, [tweens EXCEPT ![t].fired = 1], FALSE)
           S1 == resetFallingItem(S0, tweens[t].cb.item)
       IN  /\ items' = S1.its
           /\ tweens' = Collect(S1.its, S1.tws)
           /\ threw' = S1.err
    /\ UNCHANGED <<state, timer, promise, dists, tracker>>

Next ==
    \/ Start
    \/ PoolResolved
    \/ StateMachineInit
    \/ StateMachineWaitPool
    \/ StateMachineTickEmpty
    \/ StateMachineTick
    \/ Advance
    \/ \E t \in TweenIds : FallCompleted(t)
    \/ \E t \in TweenIds : ShrinkCompleted(t)

Spec == Init /\ [][Next]_vars

\* the completion of the fall Tween that object i holds is delivered
FallCompletedOf(i) ==
    \E t \in TweenIds : i \in 1..Len(items) /\ items[i].tween = t /\ FallCompleted(t)

\* the completion of a shrink Tween created for object i is delivered
ShrinkCompletedOf(i) ==
    \E t \in TweenIds : /\ tweens[t].kind = "tween"
                        /\ tweens[t].cb = CbResetFallingItem(i)
                        /\ ShrinkCompleted(t)

\* the timer keeps firing, the host clock keeps moving the running drivers, and
\* for every object the host delivers every completion that is due
LiveSpec ==
    /\ Init /\ [][Next]_vars
    /\ WF_vars(Start) /\ WF_vars(PoolResolved)
    /\ WF_vars(StateMachineInit) /\ WF_vars(StateMachineWaitPool)
    /\ WF_vars(StateMachineTick)
    /\ WF_vars(Advance)
    /\ \A i \in 1..MaxItems : WF_vars(FallCompletedOf(i)) /\ WF_vars(ShrinkCompletedOf(i))

\* the host clock keeps moving the running drivers, and for every object the
\* host delivers the completion of a shrink Tween that is due for it
FairSpec ==
    /\ Spec
    /\ WF_vars(Advance)
    /\ \A i \in 1..MaxItems :
          WF_vars(\E t \in TweenIds : tweens[t].kind = "tween"
                                       /\ tweens[t].cb = CbResetFallingItem(i)
                                       /\ ShrinkCompleted(t))

----------------------------------------------------------------------------
\* The Tween class on its own: a caller constructs a Tween with any arguments,
\* holds it, calls Kill() on it any number of times and lets it go; the host
\* clock and the host's completion event run as above.  One Tween exists at a
\* time (instances share nothing).

Durations == {1, 2}
LoopCounts == {-1, 1, 2}

\* a Tween whose constructor threw before this.animation was assigned: the
\* caller got no reference to it, the host still has its driver and listener
Unheld(tw) == tw.kind = "tween" /\ tw.animation = "undefined"

\* the Tweens the caller holds a reference to
Held == {t \in TweenIds : tweens[t].kind = "tween" /\ ~Unheld(tweens[t])}

\* new Tween(0.0, 1.0, duration, loopCount, mirror, ease, completeCallback).
\* With a sampler that is none, what Animation.animate does is the host's
\* choice: it returns an animation that is none, or it throws and the
\* exception leaves the constructor.  The throw comes after the driver was
\* created, the listener subscribed and the driver started: these stay behind
\* with the host, this.animation is never assigned, and the listener is called
\* when the driver completes.
ConstructWith(duration, loopCount, mirror, ease, completeCallback) ==
    /\ state = Invalid
    /\ \A t \in TweenIds : tweens[t].kind = "free"
    /\ \E tw \in {Tween(0, ONE, duration, loopCount, mirror, ease, completeCallback)} :
          \/ /\ tw.animation = "invalid"
             /\ threw' = TRUE
             /\ tweens' = [tweens EXCEPT ![FreeSlot(tweens)] =
                              [tw EXCEPT !.animation = "undefined"]]
          \/ /\ threw' = FALSE
             /\ tweens' = [tweens EXCEPT ![FreeSlot(tweens)] = tw]
    /\ UNCHANGED <<state, timer, promise, items, dists, tracker>>

Construct ==
    \E duration \in Durations, loopCount \in LoopCounts, mirror \in BOOLEAN,
       ease \in EaseNames, completeCallback \in {NoCallback, CbProbe} :
          ConstructWith(duration, loopCount, mirror, ease, completeCallback)

\* tween.Kill()
CallKill(t) ==
    /\ state = Invalid
    /\ t \in Held
    /\ IF KillThrows(tweens[t])
       THEN /\ threw' = TRUE
            /\ UNCHANGED tweens
       ELSE /\ threw' = FALSE
            /\ tweens' = [tweens EXCEPT ![t] = Kill(tweens[t])]
    /\ UNCHANGED <<state, timer, promise, items, dists, tracker>>

\* the host clock moves every running driver one step
ClockStep ==
    /\ state = Invalid
    /\ \E t \in TweenIds : tweens[t].kind = "tween" /\ tweens[t].clock = "running"
    /\ tweens' = [t \in TweenIds |-> DriverStep(tweens[t])]
    /\ threw' = FALSE
    /\ UNCHANGED <<state, timer, promise, items, dists, tracker>>

\* the host delivers the completion to the caller's listener
ProbeCompleted(t) ==
    /\ state = Invalid
    /\ Due(tweens[t])
    /\ tweens[t].cb = CbProbe
    /\ tweens' = [tweens EXCEPT ![t].fired = tweens[t].fired + 1]
    /\ threw' = FALSE
    /\ UNCHANGED <<state, timer, promise, items, dists, tracker>>

\* the caller lets go of a Tween it has killed
Release(t) ==
    /\ state = Invalid
    /\ t \in Held
    /\ tweens[t].driver = "null"
    /\ tweens' = [tweens EXCEPT ![t] = NoTween]
    /\ threw' = FALSE
    /\ UNCHANGED <<state, timer, promise, items, dists, tracker>>

\* a Tween nobody holds, whose driver has completed and whose listener cannot
\* be called any more, is gone
Reclaimed(t) ==
    /\ state = Invalid
    /\ Unheld(tweens[t])
    /\ tweens[t].clock = "done"
    /\ ~Due(tweens[t])
    /\ tweens' = [tweens EXCEPT ![t] = NoTween]
    /\ threw' = FALSE
    /\ UNCHANGED <<state, timer, promise, items, dists, tracker>>

TweenNext ==
    \/ Construct
    \/ \E t \in TweenIds : CallKill(t)
    \/ ClockStep
    \/ \E t \in TweenIds : ProbeCompleted(t)
    \/ \E t \in TweenIds : Release(t)
    \/ \E t \in TweenIds : Reclaimed(t)

TweenSpec == Init /\ [][TweenNext]_vars

\* the host delivers the completion of every driver that completes, unless the
\* listener is unsubscribed first
TweenFairSpec ==
    TweenSpec /\ \A t \in TweenIds : WF_vars(ProbeCompleted(t))

----------------------------------------------------------------------------
\* Vocabulary of the properties.

Objects == 1..Len(items)

IsFall(tw) == tw.kind = "tween" /\ tw.cb = CbResetAtBottom
IsShrink(tw) == tw.kind = "tween" /\ tw.cb.fn = "resetFallingItem"
Killed(tw) == tw.kind = "tween" /\ tw.driver = "null"

\* not killed and its completion not delivered
Active(tws) == {t \in TweenIds : tws[t].kind = "tween" /\ tws[t].driver = "set"
                                 /\ tws[t].fired = 0}
\* the active Tweens that were created for object i
ActiveFor(i) == {t \in Active(tweens) : OwnerOf(items, tweens, t) = i}

\* the rest pose: hidden, y = 0, scale (1,1,1), not falling, no Tween
RestPose(its, i) ==
    /\ its[i].hidden
    /\ its[i].ybind = 0 /\ its[i].y = 0
    /\ its[i].sbind = 0 /\ its[i].scale = ONE
    /\ ~its[i].falling
    /\ its[i].tween = 0

\* the inputs of one tick in state Tick that fit the heap of the model
FitInputs ==
    {in \in TickInputs :
        tickFits(St(items, tweens, FALSE), dists, in.r, in.x, in.d, in.openness)}

\* the handler's result for these inputs, before the heap is collected
TickResult(in) == tickBranch(St(items, tweens, FALSE), dists, in.r, in.x, in.d, in.openness)

\* what the start step of the tick leaves for the catch step
AfterStart(in) == collected(startFall(St(items, tweens, FALSE), in.r, in.x))

\* the slots the shrink Tween of the tick can take: those that hold no
\* reachable Tween when the catch step runs
FreshSlots(in) == Free(AfterStart(in).tws)

\* falling when the catch step scans: falling before the tick, or started by it
FallingAtScan(in, i) == items[i].falling \/ i = in.r
\* the objects the scan can catch
Catchable(in) == {i \in Objects : FallingAtScan(in, i) /\ in.d[i] < RANGE}

\* the eat path has been applied to object i: falling cleared, the fall Tween
\* that drives y killed, a fresh 1.0 -> 0.0 shrink Tween held and bound to scale
EatApplied(in, S, i) ==
    LET n == S.its[i].tween
        f == S.its[i].ybind
    IN  /\ ~S.its[i].falling
        /\ n # 0 /\ n \in FreshSlots(in)
        /\ S.tws[n] = Tween(ONE, 0, ShrinkSteps, 1, FALSE, "easeInQuad", CbResetFallingItem(i))
        /\ S.its[i].sbind = n
        /\ f # 0 /\ IsFall(S.tws[f]) /\ Killed(S.tws[f])

\* the eat path has not touched object j: it is as it was before the tick, with
\* the Tween it held unchanged, or, if this tick started it, it is falling with
\* its new fall Tween and its scale binding as before
EatNotApplied(in, S, j) ==
    IF j = in.r /\ ~items[j].falling
    THEN /\ S.its[j].falling
         /\ IsFall(S.tws[S.its[j].tween]) /\ ~Killed(S.tws[S.its[j].tween])
         /\ S.its[j].sbind = items[j].sbind
    ELSE /\ S.its[j] = items[j]
         /\ items[j].tween # 0 => S.tws[items[j].tween] = tweens[items[j].tween]

----------------------------------------------------------------------------
\* C1: every pool object has at most one active Tween (created for it, not
\* killed, completion not delivered) in every reachable state.  The code breaks
\* it: a tick that picks an object whose shrink Tween is still running assigns
\* a fall Tween over it without Kill().
C1_AtMostOneActiveTween == \A i \in Objects : Cardinality(ActiveFor(i)) <= 1

\* C2: whenever resetFallingItem(item) finishes, from a shrink completion or
\* from resetAtBottom, the object is in the rest pose and the Tween it held has
\* been killed: the active Tweens after the call are those before it, less the
\* one whose completion was delivered and the one the object held.
C2_ResetYieldsRestPose ==
    [][\A t \in TweenIds :
          /\ ShrinkCompleted(t) =>
                LET i == tweens[t].cb.item
                IN  /\ RestPose(items', i)
                    /\ Cardinality(Active(tweens')) =
                           Cardinality(Active(tweens) \ {t, items[i].tween})
          /\ FallCompleted(t) /\ findLowestItem(items, tweens) # 0 =>
                LET i == findLowestItem(items, tweens)
                IN  /\ RestPose(items', i)
                    /\ Cardinality(Active(tweens')) =
                           Cardinality(Active(tweens) \ {t, items[i].tween})
      ]_vars

\* an object that was started (its offset was drawn) is back in the rest pose
C2_Witness == \E i \in Objects : RestPose(items, i) /\ items[i].x # 0

\* C3: in a tick in state Tick with the mouth open and some object falling with
\* its sampled distance below RANGE when the catch step scans, the eat path is
\* applied to the lowest-index such object and to no other object.
C3_EatsFirstCatchable ==
    state = Tick =>
        \A in \in FitInputs :
            Eating(in.openness) /\ Catchable(in) # {} =>
                LET c == CHOOSE i \in Catchable(in) : \A j \in Catchable(in) : i <= j
                    S == TickResult(in)
                IN  /\ EatApplied(in, S, c)
                    /\ \A j \in Objects \ {c} : EatNotApplied(in, S, j)

\* the state an eaten object is in: not falling, holding a shrink Tween
Eaten(i) == ~items[i].falling /\ items[i].tween # 0 /\ IsShrink(tweens[items[i].tween])

\* object 1 has been eaten while object 2 goes on falling
C3_Witness == Len(items) >= 2 /\ Eaten(1) /\ items[2].falling

\* C4: a second Kill() on the same Tween completes without raising an error and
\* leaves the Tween as the first call left it.  The code breaks it: the second
\* call reads this.driver, which the first call set to null.
C4_KillTwiceIsSafe ==
    [][\A t \in TweenIds :
          CallKill(t) /\ Killed(tweens[t]) => ~threw' /\ tweens'[t] = tweens[t]]_vars

\* C5: a falling object holds a fall Tween that is not killed and whose
\* animation is bound to the object's y.
C5_FallingHasLiveFallTween ==
    \A i \in Objects :
        items[i].falling =>
            /\ items[i].tween # 0
            /\ IsFall(tweens[items[i].tween])
            /\ ~Killed(tweens[items[i].tween])
            /\ tweens[items[i].tween].animation = "set"
            /\ items[i].ybind = items[i].tween

\* an object is falling and its fall Tween has completed
C5_Witness ==
    \E i \in Objects : items[i].falling /\ tweens[items[i].tween].clock = "done"

\* C6: a tick in state Tick leaves alone every object whose sampled distance is
\* not below RANGE, whatever the mouth state: if it was falling it is the same
\* object record with the same, unchanged fall Tween; if the tick started it,
\* it is falling with its new fall Tween running.
C6_OutOfRangeNotEaten ==
    state = Tick =>
        \A in \in FitInputs : \A j \in Objects :
            in.d[j] >= RANGE =>
                LET S == TickResult(in)
                IN  /\ items[j].falling =>
                          /\ S.its[j] = items[j]
                          /\ S.tws[items[j].tween] = tweens[items[j].tween]
                    /\ j = in.r =>
                          /\ S.its[j].falling
                          /\ IsFall(S.tws[S.its[j].tween])
                          /\ ~Killed(S.tws[S.its[j].tween])
                    /\ S.its[j].sbind = items[j].sbind

\* object 2 has been eaten while object 1, which the scan passed over, goes on
\* falling
C6_Witness == Len(items) >= 2 /\ Eaten(2) /\ items[1].falling

\* C7: an object to which the eat path has been applied is eventually in the
\* rest pose, and what puts it there is the completion of the shrink Tween it
\* holds, whatever ticks and callbacks come between, when the clock keeps
\* moving and the due completions are delivered.  The code breaks the second
\* half: the completion of a shrink Tween left over from an earlier catch, or a
\* bottom-out reset that picks the eaten object, resets it and kills the
\* shrink Tween it holds before that Tween's completion is delivered.
C7_EatenResetByItsShrinkTween ==
    /\ \A i \in 1..MaxItems :
          (i \in Objects /\ Eaten(i)) ~> (i \in Objects /\ RestPose(items, i))
    /\ [][\A i \in Objects :
            Eaten(i) /\ RestPose(items', i) => ShrinkCompleted(items[i].tween)]_vars

\* C8: the completion callback of a Tween with a finite loopCount is called at
\* most once and only after the driver has completed; it is never called once
\* Kill() has run; and when the driver has completed with the listener still
\* subscribed, the callback is called unless Kill() comes first.
C8_CallbackOnceUnlessKilled ==
    /\ [](\A t \in TweenIds :
            tweens[t].kind = "tween" =>
                /\ tweens[t].fired <= 1
                /\ tweens[t].fired = 1 =>
                      tweens[t].clock = "done" /\ tweens[t].cb # NoCallback)
    /\ [][\A t \in TweenIds :
            Killed(tweens[t]) /\ tweens'[t].kind = "tween" =>
                tweens'[t].fired = tweens[t].fired]_vars
    /\ \A t \in TweenIds :
          (tweens[t].kind = "tween" /\ tweens[t].cb # NoCallback
             /\ tweens[t].loopCount # -1 /\ tweens[t].clock = "done"
             /\ ~Killed(tweens[t]))
          ~> (tweens[t].kind = "tween" /\ (tweens[t].fired = 1 \/ Killed(tweens[t])))

\* a Tween of two loops has completed and its callback has been called
C8_Witness ==
    \E t \in TweenIds :
        /\ tweens[t].kind = "tween" /\ tweens[t].loopCount = 2
        /\ tweens[t].fired = 1 /\ ~Killed(tweens[t])

\* C9: constructing a Tween with an ease name outside the catalog raises no
\* exception and yields a working Tween on the linear sampler between startVal
\* and endVal: driver started, animation set, callback (if given) subscribed.
\* The code breaks it for a name that resolves to an inherited member: the
\* lookup does not throw, so the catch block never installs linear.
C9_UnknownEaseFallsBackToLinear ==
    [][\A duration \in Durations, loopCount \in LoopCounts, mirror \in BOOLEAN,
          ease \in EaseNames \ Catalog, completeCallback \in {NoCallback, CbProbe} :
          ConstructWith(duration, loopCount, mirror, ease, completeCallback) =>
              LET tw == tweens'[FreeSlot(tweens)]
              IN  /\ ~threw'
                  /\ tw.kind = "tween"
                  /\ tw.sampler = "linear" /\ tw.curve = "linear"
                  /\ tw.startVal = 0 /\ tw.endVal = ONE
                  /\ tw.driver = "set" /\ tw.clock = "running"
                  /\ tw.animation = "set"
                  /\ completeCallback # NoCallback => tw.sub = "subscribed"
      ]_vars

\* C10: in a tick in state Tick, a pick of an object that is already falling
\* starts nothing on it (hidden flag, offset and y binding as before, no new
\* fall Tween anywhere, and the whole object as before unless the catch step of
\* the same tick eats it); a pick of an object that is not falling unhides it,
\* draws its offset, binds its y to a new fall Tween and sets falling on it, and
\* on no other object.
C10_StartFallOnlyWhenNotFalling ==
    state = Tick =>
        \A in \in FitInputs :
            LET S == TickResult(in)
                r == in.r
                eaten(j) == /\ Eating(in.openness)
                            /\ j \in Catchable(in)
                            /\ \A k \in Catchable(in) : j <= k
            IN  /\ items[r].falling =>
                      /\ S.its[r].hidden = items[r].hidden
                      /\ S.its[r].x = items[r].x
                      /\ S.its[r].ybind = items[r].ybind
                      /\ ~eaten(r) => S.its[r] = items[r]
                      /\ \A n \in Free(tweens) : ~IsFall(S.tws[n])
                /\ ~items[r].falling =>
                      /\ ~S.its[r].hidden
                      /\ S.its[r].x = in.x
                      /\ S.its[r].ybind \in Free(tweens)
                      /\ IsFall(S.tws[S.its[r].ybind])
                      /\ S.its[r].falling = ~eaten(r)
                /\ \A j \in Objects \ {r} :
                      /\ S.its[j].hidden = items[j].hidden
                      /\ S.its[j].x = items[j].x
                      /\ S.its[j].ybind = items[j].ybind
                      /\ S.its[j].falling => items[j].falling

\* an object was started (unhidden, offset drawn) and its fall is under way,
\* so that later ticks can pick it again
C10_Witness ==
    \E i \in Objects :
        /\ items[i].falling /\ ~items[i].hidden /\ items[i].x \in XVals
        /\ tweens[items[i].tween].elapsed > 0

----------------------------------------------------------------------------
\* C11: the controller state only takes the transitions Invalid -> Init,
\* Init -> WaitPool, WaitPool -> Tick (and the self-loops of WaitPool and Tick):
\* it never decreases, stays Tick once it is Tick, and is never Catch.
C11_StateOnlyAdvances ==
    /\ [](state \in {Invalid, Init_, WaitPool, Tick})
    /\ [][/\ state' # state =>
                <<state, state'>> \in {<<Invalid, Init_>>, <<Init_, WaitPool>>,
                                       <<WaitPool, Tick>>}
          /\ state' >= state
          /\ state = Tick => state' = Tick
          /\ Start => state = Invalid /\ state' = Init_]_vars

\* the controller is in Tick after ticks, a catch and a reset by a callback
C11_Witness ==
    /\ state = Tick
    /\ \E i \in Objects : items[i].falling
    /\ \E j \in Objects : RestPose(items, j) /\ items[j].x # 0

\* C12: when a fall Tween's completion runs resetAtBottom, the object reset is
\* falling and no falling object is lower; an object that is not falling is
\* never the one reset.  The code breaks it: findLowestItem() does not read the
\* falling flag, and an object eaten at the bottom keeps its y there.
C12_BottomOutResetsLowestFalling ==
    [][\A t \in TweenIds :
          FallCompleted(t) /\ findLowestItem(items, tweens) # 0 =>
              LET i == findLowestItem(items, tweens)
              IN  /\ items[i].falling
                  /\ \A j \in Objects :
                        items[j].falling => PosY(items, tweens, i) <= PosY(items, tweens, j)
      ]_vars

\* C13: in a tick in state Tick with the mouth not open, the catch step changes
\* nothing: the tick's result is what the start step left, and every object
\* that is falling with its sampled distance below RANGE stays falling with its
\* fall Tween unkilled and in place and its scale binding as before.
C13_MouthClosedCatchesNothing ==
    state = Tick =>
        \A in \in FitInputs :
            ~Eating(in.openness) =>
                LET S1 == AfterStart(in)
                    S  == TickResult(in)
                IN  /\ S = S1
                    /\ \A j \in Catchable(in) :
                          /\ S.its[j].falling
                          /\ IsFall(S.tws[S.its[j].tween])
                          /\ ~Killed(S.tws[S.its[j].tween])
                          /\ S.its[j].ybind = S.its[j].tween
                          /\ S.its[j].sbind = items[j].sbind
                          /\ items[j].falling =>
                                /\ S.its[j] = items[j]
                                /\ S.tws[items[j].tween] = tweens[items[j].tween]

\* a tick can sample the mouth closed while an object whose fall is under way
\* is within RANGE
C13_Witness ==
    /\ state = Tick
    /\ \E in \in FitInputs :
          /\ ~Eating(in.openness)
          /\ \E j \in Catchable(in) :
                items[j].falling /\ tweens[items[j].tween].elapsed > 0

\* C14: the controller leaves WaitPool only in a tick that finds the object
\* list non-null, whatever the order of the pool's resolution and the ticks: in
\* state Tick the list is non-null and dists holds one binding per object in the
\* order of items; the WaitPool -> Tick step hides every object; and a WaitPool
\* tick on a null list changes nothing.
C14_LeavesWaitPoolWithObjects ==
    /\ [](state = Tick =>
            /\ promise = "resolved"
            /\ Len(dists) = Len(items)
            /\ \A i \in Objects : dists[i] = i)
    /\ [][state = WaitPool /\ state' # WaitPool =>
            /\ promise = "resolved"
            /\ state' = Tick
            /\ Len(items') = Len(items)
            /\ \A i \in Objects : items'[i] = [items[i] EXCEPT !.hidden = TRUE]
            /\ Len(dists') = Len(items')]_vars
    /\ [](state = WaitPool /\ promise = "pending" => ~ENABLED <<StateMachineWaitPool>>_vars)

\* the controller is in Tick over a pool of two objects, all hidden and none
\* started yet
C14_Witness ==
    /\ state = Tick
    /\ Len(items) = 2 /\ Len(dists) = 2
    /\ \A i \in Objects : items[i].hidden /\ items[i].x = 0

\* C15: a falling object is not hidden, in every reachable state.
C15_FallingIsVisible == \A i \in Objects : items[i].falling => ~items[i].hidden

\* one object is falling and visible while another has been started, reset and
\* hidden again
C15_Witness ==
    \E i, j \in Objects :
        /\ items[i].falling /\ ~items[i].hidden
        /\ items[j].hidden /\ ~items[j].falling /\ items[j].x # 0

\* C16: a tick in state Tick raises no error, whatever the size of the pool.
\* The code breaks it on an empty pool: items[0] is undefined and the read of
\* item.falling throws, in this tick and in every later one.
C16_NoTickThrows ==
    [][state = Tick /\ (StateMachineTickEmpty \/ StateMachineTick) => ~threw']_vars

\* C17: an object that is falling is reset only by the completion of the fall
\* Tween it holds (the one its start created); a shrink Tween's completion
\* never resets an object that is falling, since a catch after the start would
\* have cleared the flag.  The code breaks it: a start over a running shrink
\* Tween leaves that Tween subscribed, and its completion resets the object.
C17_FallingResetOnlyByOwnTween ==
    [][\A t \in TweenIds :
          /\ ShrinkCompleted(t) => ~items[tweens[t].cb.item].falling
          /\ FallCompleted(t) /\ findLowestItem(items, tweens) # 0 =>
                items[findLowestItem(items, tweens)].tween = t
      ]_vars

\* C18: when the completion of a fall Tween is delivered, resetAtBottom finds
\* an object, that object is the one holding the completed Tween, and no other
\* object changes.  The code breaks it: findLowestItem() returns the first
\* object at the lowest y, which need not be the owner when two are at BOTTOM.
C18_BottomOutResetsOwner ==
    [][\A t \in TweenIds :
          FallCompleted(t) =>
              LET i == findLowestItem(items, tweens)
              IN  /\ i # 0
                  /\ items[i].tween = t
                  /\ \A j \in Objects \ {i} : items'[j] = items[j]
      ]_vars

\* C19: an object that is falling is eventually in the rest pose, when the
\* timer keeps firing, the clock keeps moving and every due completion is
\* delivered.  The code breaks it: the delivery of an object's fall completion
\* can reset another object, and the first stays falling with nothing left to
\* reset it.
C19_FallingEventuallyRests ==
    \A i \in 1..MaxItems :
        (i \in Objects /\ items[i].falling) ~> (i \in Objects /\ RestPose(items, i))

====
